---- MODULE Spec2Model ----
(***************************************************************************)
(* A model of the return-policy chatbot backend.                           *)
(*                                                                         *)
(*   backend/index.js          the query service: environment check,       *)
(*                             initializeAIComponents, the POST /query     *)
(*                             handler and the conversation chain          *)
(*   backend/processPolicy.js  the ingestion script processAndEmbedPolicy  *)
(*                                                                         *)
(* The third-party libraries (Express, LangChain, Supabase, Gemini) are    *)
(* modelled by their contract as the source uses it: a call into a remote  *)
(* service either returns or throws, and the in-process BufferMemory is an *)
(* ordered list to which saveContext appends one (input, output) turn.     *)
(* Every `await` of the source is a point where other requests may run.    *)
(***************************************************************************)
EXTENDS Integers, Sequences, FiniteSets, TLC

\* ---------------------------------------------------------------- bounds
\* Number of POST /query requests the model lets clients issue.
NumReq == 2
\* Largest number of pages the policy document is loaded into.
MaxPages == 2
\* Largest number of chunks the splitter may produce.
MaxChunks == 3
\* Largest number of rows already in the vector table before ingestion.
MaxPreRows == 1

Reqs == 1..NumReq

\* ---------------------------------------------------------------- values
\* JavaScript's undefined (an unset environment variable, a missing field).
Undefined == "<undefined>"
\* A configured secret value.
Secret == "s3cr3t"

EnvKeys == {"GOOGLE_API_KEY", "SUPABASE_URL", "SUPABASE_SERVICE_ROLE_KEY"}
\* process.env.X is undefined, the empty string, or a non-empty string.
EnvValues == {Undefined, "", Secret}

\* The `question` field of a request body: missing, empty, or a text.
Questions == {"q1", "q2"}
QuestionFields == {Undefined, ""} \cup Questions
\* The texts the hosted model may answer with.
Answers == {"a1", "a2"}

\* "No value yet" for the per-request fields.
None == "<none>"

\* JavaScript truthiness of the values above: !v holds of undefined and "".
Falsy(v) == v \in {Undefined, ""}

VARIABLES
  env,        \* process.env restricted to the three required keys
  bootPc,     \* position of the service's top-level script
  exitCode,   \* the service's exit status, -1 while it runs
  log,        \* the service's console output, in order
  initCalls,  \* number of calls of initializeAIComponents
  components, \* the global AI components constructed so far
  routes,     \* the routes registered on the Express app
  listening,  \* app.listen has been called
  memory,     \* BufferMemory: the ordered list of turns
  pc,         \* per request: position of its handler
  question,   \* per request: req.body.question
  retrQuery,  \* per request: the argument handed to retriever.invoke
  context,    \* per request: the outcome of the retrieval
  hist,       \* per request: chat_history as loaded for the prompt
  prompt,     \* per request: the prompt handed to the LLM
  answer,     \* per request: the parsed result of the chain
  status,     \* per request: HTTP status of the response, 0 before
  body,       \* per request: the response body
  memAtRecv,  \* history: memory when the request was received
  loadedLen,  \* history: number of turns in memory when history was loaded
  alone,      \* history: no other request was in flight during this one
  prior,      \* history: requests answered before this one was received
  savedBy,    \* history: for each turn of memory, the request that saved it
  ipc,        \* ingestion script: position
  iexit,      \* ingestion script: exit status, -1 while it runs
  ilog,       \* ingestion script: console output, in order
  idocs,      \* ingestion script: docs.length
  ichunks,    \* ingestion script: splittedDocs.length
  store       \* number of rows of the `documents` table

serverVars == <<bootPc, exitCode, log, initCalls, components, routes, listening>>
reqVars == <<memory, pc, question, retrQuery, context, hist, prompt, answer,
             status, body, memAtRecv, loadedLen, alone, prior, savedBy>>
ingestVars == <<ipc, iexit, ilog, idocs, ichunks, store>>
vars == <<env, serverVars, reqVars, ingestVars>>

\* ------------------------------------------------------ environment check
\* index.js:34-39 and processPolicy.js:23-28: the state of a variable is
\* printed, never its value.
EnvStatus(v) == IF Falsy(v) THEN "EJ LADAD" ELSE "Laddad"

EnvDiagnostic(e) ==
  << <<"GOOGLE_API_KEY", EnvStatus(e["GOOGLE_API_KEY"])>>,
     <<"SUPABASE_URL", EnvStatus(e["SUPABASE_URL"])>>,
     <<"SUPABASE_SERVICE_ROLE_KEY", EnvStatus(e["SUPABASE_SERVICE_ROLE_KEY"])>> >>

\* A plausible slip: the process exits only when all three are missing.
EnvMissing_allOnly(e) ==
  /\ Falsy(e["GOOGLE_API_KEY"])
  /\ Falsy(e["SUPABASE_URL"])
  /\ Falsy(e["SUPABASE_SERVICE_ROLE_KEY"])

\* index.js:43 (and processPolicy.js:39).
EnvMissing(e) ==
  \/ Falsy(e["GOOGLE_API_KEY"])
  \/ Falsy(e["SUPABASE_URL"])
  \/ Falsy(e["SUPABASE_SERVICE_ROLE_KEY"])

ErrEnv == "FEL: Saknar en eller flera nodvandiga miljovariabler."
ErrInit == "FEL vid initialisering av AI-komponenter"

\* index.js:28-48.
EnvCheck ==
  /\ bootPc = "start"
  /\ IF EnvMissing(env)
       THEN /\ log' = log \o EnvDiagnostic(env) \o << <<"error", ErrEnv>> >>
            /\ exitCode' = 1
            /\ bootPc' = "exited"
       ELSE /\ log' = log \o EnvDiagnostic(env)
            /\ exitCode' = exitCode
            /\ bootPc' = "init"
  /\ UNCHANGED <<env, initCalls, components, routes, listening, reqVars, ingestVars>>

\* ---------------------------------------------------- initializeAIComponents
AllComponents == {"llm", "vectorStore", "retriever", "memory", "conversationChain"}

\* index.js:142 calls the function; index.js:61-67 constructs the LLM client.
ConstructLLM ==
  /\ bootPc = "init"
  /\ initCalls' = initCalls + 1
  /\ components' = components \cup {"llm"}
  /\ bootPc' = "vectorStore"
  /\ UNCHANGED <<env, exitCode, log, routes, listening, reqVars, ingestVars>>

\* index.js:72-84.
ConstructVectorStore ==
  /\ bootPc = "vectorStore"
  /\ components' = components \cup {"vectorStore"}
  /\ bootPc' = "retriever"
  /\ UNCHANGED <<env, exitCode, log, initCalls, routes, listening, reqVars, ingestVars>>

\* index.js:88.
ConstructRetriever ==
  /\ bootPc = "retriever"
  /\ components' = components \cup {"retriever"}
  /\ bootPc' = "memory"
  /\ UNCHANGED <<env, exitCode, log, initCalls, routes, listening, reqVars, ingestVars>>

\* index.js:92-95: a new, empty BufferMemory.
ConstructMemory ==
  /\ bootPc = "memory"
  /\ components' = components \cup {"memory"}
  /\ memory' = << >>
  /\ savedBy' = << >>
  /\ bootPc' = "chain"
  /\ UNCHANGED <<env, exitCode, log, initCalls, routes, listening, pc, question,
                 retrQuery, context, hist, prompt, answer, status, body,
                 memAtRecv, loadedLen, alone, prior, ingestVars>>

\* index.js:99-134: the prompt template and the chain; the function returns.
BuildChain ==
  /\ bootPc = "chain"
  /\ components' = components \cup {"conversationChain"}
  /\ bootPc' = "ready"
  /\ UNCHANGED <<env, exitCode, log, initCalls, routes, listening, reqVars, ingestVars>>

\* index.js:135-138: any constructor throwing is caught, logged, and the
\* process exits with status 1; the promise's `then` callback never runs.
InitFail ==
  /\ bootPc \in {"init", "vectorStore", "retriever", "memory", "chain"}
  /\ initCalls' = IF bootPc = "init" THEN initCalls + 1 ELSE initCalls
  /\ log' = Append(log, <<"error", ErrInit>>)
  /\ exitCode' = 1
  /\ bootPc' = "exited"
  /\ UNCHANGED <<env, components, routes, listening, reqVars, ingestVars>>

\* A plausible slip: listening without waiting for the initialisation
\* (app.listen outside the `then` callback).
StartServer_early ==
  /\ bootPc \in {"init", "vectorStore", "retriever", "memory", "chain", "ready"}
  /\ routes' = {"GET /", "POST /query"}
  /\ listening' = TRUE
  /\ bootPc' = "listening"
  /\ UNCHANGED <<env, exitCode, log, initCalls, components, reqVars, ingestVars>>

\* index.js:142-181: the `then` callback registers the routes and listens.
StartServer ==
  /\ bootPc = "ready"
  /\ routes' = {"GET /", "POST /query"}
  /\ listening' = TRUE
  /\ bootPc' = "listening"
  /\ UNCHANGED <<env, exitCode, log, initCalls, components, reqVars, ingestVars>>

\* ------------------------------------------------------- POST /query
Err400 == "Fraga saknas i forfragan."
Err500 == "Kunde inte generera svar. Forsok igen senare."

InFlight(r) == pc[r] \notin {"idle", "responded"}

\* One turn of the conversation, as saveContext stores it.
Turn(q, a) == [input |-> q, output |-> a]

\* index.js:119: the argument of retriever.invoke is input.question.
RetrieverInput(input) == <<input.question>>

\* index.js:120: RunnablePassthrough hands the chain's whole input,
\* the object {question}, to the prompt's `question` slot.
PromptQuestion(input) == input

\* index.js:169-173: the catch of the handler answers 500.
Fail500(r) ==
  /\ pc' = [pc EXCEPT ![r] = "responded"]
  /\ status' = [status EXCEPT ![r] = 500]
  /\ body' = [body EXCEPT ![r] = <<"error", Err500>>]

\* A plausible slip: the history is handed to the retriever with the question.
ChainStart_withHistory(r, q) ==
  /\ pc' = [pc EXCEPT ![r] = "chain"]
  /\ retrQuery' = [retrQuery EXCEPT ![r] = <<q>> \o [i \in 1..Len(memory) |-> memory[i].input]]
  /\ context' = [context EXCEPT ![r] = "pending"]
  /\ UNCHANGED <<status, body>>

\* index.js:159 with index.js:118-126: conversationChain.invoke({question})
\* starts the three branches of the first step; the retriever is called with
\* the question and the call is in flight.
ChainStart(r, q) ==
  /\ pc' = [pc EXCEPT ![r] = "chain"]
  /\ retrQuery' = [retrQuery EXCEPT ![r] = RetrieverInput([question |-> q])]
  /\ context' = [context EXCEPT ![r] = "pending"]
  /\ UNCHANGED <<status, body>>

\* A plausible slip: the check for a missing question comes after the chain
\* was started.
Reject400_late(r) ==
  /\ pc' = [pc EXCEPT ![r] = "responded"]
  /\ status' = [status EXCEPT ![r] = 400]
  /\ body' = [body EXCEPT ![r] = <<"error", Err400>>]
  /\ retrQuery' = [retrQuery EXCEPT ![r] = <<question'[r]>>]
  /\ UNCHANGED context

\* index.js:153-155: the handler returns 400 before anything else is called.
Reject400(r) ==
  /\ pc' = [pc EXCEPT ![r] = "responded"]
  /\ status' = [status EXCEPT ![r] = 400]
  /\ body' = [body EXCEPT ![r] = <<"error", Err400>>]
  /\ UNCHANGED <<retrQuery, context>>

\* index.js:149-159: a request arrives with `question` = q. Request numbers
\* are given in the order of arrival.
Receive(r, q) ==
  /\ listening
  /\ exitCode = -1
  /\ "POST /query" \in routes
  /\ pc[r] = "idle"
  /\ \A o \in Reqs : o < r => pc[o] # "idle"
  /\ question' = [question EXCEPT ![r] = q]
  /\ memAtRecv' = [memAtRecv EXCEPT ![r] = memory]
  /\ prior' = [prior EXCEPT ![r] = {o \in Reqs : pc[o] = "responded"}]
  /\ IF Falsy(q)
       THEN /\ Reject400(r)
            /\ alone' = alone
       ELSE /\ ChainStart(r, q)
            /\ alone' = [o \in Reqs |->
                           IF o = r THEN \A x \in Reqs : ~InFlight(x)
                           ELSE IF InFlight(o) THEN FALSE ELSE alone[o]]
  /\ UNCHANGED <<env, serverVars, ingestVars, memory, hist, prompt, answer,
                 loadedLen, savedBy>>

\* A plausible slip: the history is read under another key than the
\* memoryKey "chat_history", so that nothing is replayed.
LoadMemory_wrongKey(r) ==
  /\ pc[r] = "chain"
  /\ loadedLen[r] = -1
  /\ hist' = [hist EXCEPT ![r] = << >>]
  /\ loadedLen' = [loadedLen EXCEPT ![r] = Len(memory)]
  /\ UNCHANGED <<env, serverVars, ingestVars, memory, pc, question, retrQuery,
                 context, prompt, answer, status, body, memAtRecv, alone, prior,
                 savedBy>>

\* index.js:121-125: memory.loadMemoryVariables({}) returns the whole history,
\* taken here as the list of turns at the moment of the call.
LoadMemory(r) ==
  /\ pc[r] = "chain"
  /\ loadedLen[r] = -1
  /\ hist' = [hist EXCEPT ![r] = memory]
  /\ loadedLen' = [loadedLen EXCEPT ![r] = Len(memory)]
  /\ UNCHANGED <<env, serverVars, ingestVars, memory, pc, question, retrQuery,
                 context, prompt, answer, status, body, memAtRecv, alone, prior,
                 savedBy>>

\* index.js:119: the retriever returns its chunks.
RetrieveOk(r) ==
  /\ pc[r] = "chain"
  /\ context[r] = "pending"
  /\ context' = [context EXCEPT ![r] = "chunks"]
  /\ UNCHANGED <<env, serverVars, ingestVars, memory, pc, question, retrQuery,
                 hist, prompt, answer, status, body, memAtRecv, loadedLen, alone,
                 prior, savedBy>>

\* A plausible slip: no try/catch around the chain; the rejection is
\* unhandled and the process goes down with it.
RetrieveFail_uncaught(r) ==
  /\ pc[r] = "chain"
  /\ context[r] = "pending"
  /\ context' = [context EXCEPT ![r] = "failed"]
  /\ exitCode' = 1
  /\ bootPc' = "exited"
  /\ listening' = FALSE
  /\ UNCHANGED <<env, log, initCalls, components, routes, ingestVars, memory, pc,
                 question, retrQuery, hist, prompt, answer, status, body,
                 memAtRecv, loadedLen, alone, prior, savedBy>>

\* index.js:119 and 169-173: the retriever throws; the chain rejects and the
\* handler's catch answers 500.
RetrieveFail(r) ==
  /\ pc[r] = "chain"
  /\ context[r] = "pending"
  /\ context' = [context EXCEPT ![r] = "failed"]
  /\ Fail500(r)
  /\ UNCHANGED <<env, serverVars, ingestVars, memory, question, retrQuery, hist,
                 prompt, answer, memAtRecv, loadedLen, alone, prior, savedBy>>

\* index.js:128-130: once the three inputs are there the template is filled
\* and the prompt is sent to the LLM.
InvokeLLM(r) ==
  /\ pc[r] = "chain"
  /\ context[r] = "chunks"
  /\ loadedLen[r] # -1
  /\ prompt' = [prompt EXCEPT ![r] =
                  << [context |-> context[r],
                      chat_history |-> hist[r],
                      question |-> PromptQuestion([question |-> question[r]])] >>]
  /\ pc' = [pc EXCEPT ![r] = "llm"]
  /\ UNCHANGED <<env, serverVars, ingestVars, memory, question, retrQuery,
                 context, hist, answer, status, body, memAtRecv, loadedLen, alone,
                 prior, savedBy>>

\* index.js:130-132 and 159: the LLM answers and the parser yields a string.
LLMOk(r, a) ==
  /\ pc[r] = "llm"
  /\ answer' = [answer EXCEPT ![r] = a]
  /\ pc' = [pc EXCEPT ![r] = "save"]
  /\ UNCHANGED <<env, serverVars, ingestVars, memory, question, retrQuery,
                 context, hist, prompt, status, body, memAtRecv, loadedLen, alone,
                 prior, savedBy>>

\* A plausible slip: the turn is saved in a `finally`, also when the LLM failed.
LLMFail_saves(r) ==
  /\ pc[r] = "llm"
  /\ Fail500(r)
  /\ memory' = Append(memory, Turn(question[r], ""))
  /\ savedBy' = Append(savedBy, r)
  /\ UNCHANGED <<env, serverVars, ingestVars, question, retrQuery, context, hist,
                 prompt, answer, memAtRecv, loadedLen, alone, prior>>

\* index.js:130 and 169-173: the LLM call throws; the catch answers 500.
LLMFail(r) ==
  /\ pc[r] = "llm"
  /\ Fail500(r)
  /\ UNCHANGED <<env, serverVars, ingestVars, memory, question, retrQuery,
                 context, hist, prompt, answer, memAtRecv, loadedLen, alone, prior,
                 savedBy>>

\* A plausible slip: the history is written back from the copy the request
\* loaded (read-modify-write), which drops the turns saved in between.
SaveContext_fromLoaded(r) ==
  /\ pc[r] = "save"
  /\ memory' = Append(hist[r], Turn(question[r], answer[r]))
  /\ savedBy' = Append(SubSeq(savedBy, 1, Len(hist[r])), r)
  /\ pc' = [pc EXCEPT ![r] = "saved"]
  /\ UNCHANGED <<env, serverVars, ingestVars, question, retrQuery, context, hist,
                 prompt, answer, status, body, memAtRecv, loadedLen, alone, prior>>

\* A plausible slip: the turn is never saved.
SaveContext_skipped(r) ==
  /\ pc[r] = "save"
  /\ pc' = [pc EXCEPT ![r] = "saved"]
  /\ UNCHANGED <<env, serverVars, ingestVars, memory, savedBy, question, retrQuery,
                 context, hist, prompt, answer, status, body, memAtRecv, loadedLen,
                 alone, prior>>

\* index.js:162-165: memory.saveContext appends the turn to the shared memory.
SaveContext(r) ==
  /\ pc[r] = "save"
  /\ memory' = Append(memory, Turn(question[r], answer[r]))
  /\ savedBy' = Append(savedBy, r)
  /\ pc' = [pc EXCEPT ![r] = "saved"]
  /\ UNCHANGED <<env, serverVars, ingestVars, question, retrQuery, context, hist,
                 prompt, answer, status, body, memAtRecv, loadedLen, alone, prior>>

\* index.js:167-168: the answer is sent, with the default status 200.
Respond(r) ==
  /\ pc[r] = "saved"
  /\ status' = [status EXCEPT ![r] = 200]
  /\ body' = [body EXCEPT ![r] = <<"answer", answer[r]>>]
  /\ pc' = [pc EXCEPT ![r] = "responded"]
  /\ UNCHANGED <<env, serverVars, ingestVars, memory, question, retrQuery,
                 context, hist, prompt, answer, memAtRecv, loadedLen, alone, prior,
                 savedBy>>

\* ------------------------------------------- processPolicy.js (ingestion)
MsgUploaded == "Embeddings har laddats upp till Supabase framgangsrikt!"
MsgDone == "Processen ar klar."
MsgUploadError == "FEL vid uppladdning till Supabase"
MsgDimensionHint == "Kontrollera dimensionen"
MsgRejected == "console.error(rejection)"

\* What makes SupabaseVectorStore.fromDocuments throw: the embedding provider,
\* a vector of the wrong width, or the connection to the store.
UploadErrors == {"embedding", "vector dimension mismatch", "connection"}

\* processPolicy.js:35-44.
IngestEnvCheck ==
  /\ ipc = "start"
  /\ IF EnvMissing(env)
       THEN /\ ilog' = Append(ilog, ErrEnv)
            /\ iexit' = 1
            /\ ipc' = "exited"
       ELSE /\ ilog' = ilog
            /\ iexit' = iexit
            /\ ipc' = "load"
  /\ UNCHANGED <<env, serverVars, reqVars, idocs, ichunks, store>>

\* processPolicy.js:47-51: the PDF is loaded into n page documents.
IngestLoad(n) ==
  /\ ipc = "load"
  /\ idocs' = n
  /\ ipc' = "split"
  /\ UNCHANGED <<env, serverVars, reqVars, iexit, ilog, ichunks, store>>

\* processPolicy.js:50 and 104: loader.load() throws; the function's promise
\* rejects, `.catch(console.error)` prints the error and the script ends as
\* any script whose work is over: with status 0.
IngestLoadFail ==
  /\ ipc = "load"
  /\ ilog' = Append(ilog, MsgRejected)
  /\ iexit' = 0
  /\ ipc' = "exited"
  /\ UNCHANGED <<env, serverVars, reqVars, idocs, ichunks, store>>

\* processPolicy.js:55-60: the pages are split into c chunks, at least one
\* per page.
IngestSplit(c) ==
  /\ ipc = "split"
  /\ c >= idocs
  /\ ichunks' = c
  /\ ipc' = "upload"
  /\ UNCHANGED <<env, serverVars, reqVars, iexit, ilog, idocs, store>>

\* processPolicy.js:76-81 and 100: all chunks are embedded and written; the
\* script reports success and completion and ends with status 0.
IngestUploadOk ==
  /\ ipc = "upload"
  /\ store' = store + ichunks
  /\ ilog' = ilog \o <<MsgUploaded, MsgDone>>
  /\ iexit' = 0
  /\ ipc' = "exited"
  /\ UNCHANGED <<env, serverVars, reqVars, idocs, ichunks>>

\* processPolicy.js:82-100: fromDocuments throws after k rows were written;
\* the catch prints the error (and a hint for a dimension mismatch) and the
\* function goes on to print the completion message and return normally.
IngestUploadFail(k, e) ==
  /\ ipc = "upload"
  /\ k < ichunks
  /\ e = "embedding" => k = 0
  /\ store' = store + k
  /\ ilog' = ilog \o <<MsgUploadError>>
                  \o (IF e = "vector dimension mismatch" THEN <<MsgDimensionHint>> ELSE << >>)
                  \o <<MsgDone>>
  /\ iexit' = 0
  /\ ipc' = "exited"
  /\ UNCHANGED <<env, serverVars, reqVars, idocs, ichunks>>

\* ------------------------------------------------------- specifications
InitCommon ==
  /\ env \in [EnvKeys -> EnvValues]
  /\ bootPc = "start"
  /\ exitCode = -1
  /\ log = << >>
  /\ initCalls = 0
  /\ components = {}
  /\ routes = {}
  /\ listening = FALSE
  /\ memory = << >>
  /\ savedBy = << >>
  /\ pc = [r \in Reqs |-> "idle"]
  /\ question = [r \in Reqs |-> None]
  /\ retrQuery = [r \in Reqs |-> << >>]
  /\ context = [r \in Reqs |-> None]
  /\ hist = [r \in Reqs |-> << >>]
  /\ prompt = [r \in Reqs |-> << >>]
  /\ answer = [r \in Reqs |-> None]
  /\ status = [r \in Reqs |-> 0]
  /\ body = [r \in Reqs |-> << >>]
  /\ memAtRecv = [r \in Reqs |-> << >>]
  /\ loadedLen = [r \in Reqs |-> -1]
  /\ alone = [r \in Reqs |-> FALSE]
  /\ prior = [r \in Reqs |-> {}]
  /\ ipc = "start"
  /\ iexit = -1
  /\ ilog = << >>
  /\ idocs = 0
  /\ ichunks = 0

\* The query service: `node index.js`.
Init ==
  /\ InitCommon
  /\ store = 0

Next ==
  \/ EnvCheck
  \/ ConstructLLM
  \/ ConstructVectorStore
  \/ ConstructRetriever
  \/ ConstructMemory
  \/ BuildChain
  \/ InitFail
  \/ StartServer
  \/ \E r \in Reqs, q \in QuestionFields : Receive(r, q)
  \/ \E r \in Reqs : LoadMemory(r)
  \/ \E r \in Reqs : RetrieveOk(r)
  \/ \E r \in Reqs : RetrieveFail(r)
  \/ \E r \in Reqs : InvokeLLM(r)
  \/ \E r \in Reqs, a \in Answers : LLMOk(r, a)
  \/ \E r \in Reqs : LLMFail(r)
  \/ \E r \in Reqs : SaveContext(r)
  \/ \E r \in Reqs : Respond(r)

Spec == Init /\ [][Next]_vars

\* The ingestion script: `node processPolicy.js`.
IngestInit ==
  /\ InitCommon
  /\ store \in 0..MaxPreRows

IngestNext ==
  \/ IngestEnvCheck
  \/ \E n \in 1..MaxPages : IngestLoad(n)
  \/ IngestLoadFail
  \/ \E c \in 1..MaxChunks : IngestSplit(c)
  \/ IngestUploadOk
  \/ \E k \in 0..MaxChunks, e \in UploadErrors : IngestUploadFail(k, e)

IngestSpec == IngestInit /\ [][IngestNext]_vars

\* ------------------------------------------------------------ properties
Done200(r) == pc[r] = "responded" /\ status[r] = 200

Range(f) == {f[i] : i \in DOMAIN f}

\* The steps a request in flight can take.
ReqStep(r) ==
  \/ LoadMemory(r)
  \/ RetrieveOk(r)
  \/ RetrieveFail(r)
  \/ InvokeLLM(r)
  \/ \E a \in Answers : LLMOk(r, a)
  \/ LLMFail(r)
  \/ SaveContext(r)
  \/ Respond(r)

\* C1: a POST /query whose question is missing or empty is answered 400 with
\* an error body in the step that receives it; that step calls neither the
\* retriever nor the LLM for any request and leaves the memory as it was, and
\* such a request never has a retriever call, a prompt or a turn of its own,
\* whatever other requests were answered before or are in flight.
C1_RejectIsSideEffectFree ==
  /\ [](\A r \in Reqs :
          (pc[r] # "idle" /\ Falsy(question[r])) =>
            /\ pc[r] = "responded"
            /\ status[r] = 400
            /\ body[r] = <<"error", Err400>>
            /\ retrQuery[r] = << >>
            /\ prompt[r] = << >>
            /\ r \notin Range(savedBy))
  /\ [][\A r \in Reqs :
          (pc[r] = "idle" /\ pc'[r] # "idle" /\ Falsy(question'[r])) =>
            /\ status'[r] = 400
            /\ memory' = memory
            /\ retrQuery' = retrQuery
            /\ prompt' = prompt
            /\ \A o \in Reqs \ {r} : pc'[o] = pc[o]]_vars

\* A request was rejected with 400 while another one, whose retriever call
\* had been made, was in flight.
C1_Witness ==
  \E r, o \in Reqs :
    /\ status[r] = 400
    /\ InFlight(o)
    /\ retrQuery[o] # << >>

\* C2: when a request with a non-empty question is answered after its
\* retrieval and its LLM call succeeded, and no other request was in flight
\* while it was handled, the response is 200 with the answer and, in the step
\* that sends it, the memory is the memory at receipt followed by the one turn
\* (question, answer) of this request.
C2_LoneSuccessAppendsOneTurn ==
  [][\A r \in Reqs :
       (pc[r] # "responded" /\ pc'[r] = "responded"
          /\ ~Falsy(question'[r]) /\ context'[r] = "chunks" /\ answer'[r] # None
          /\ alone'[r]) =>
         /\ status'[r] = 200
         /\ body'[r] = <<"answer", answer'[r]>>
         /\ Len(memory') = Len(memAtRecv'[r]) + 1
         /\ memory' = Append(memAtRecv'[r], Turn(question'[r], answer'[r]))]_vars

\* A request handled alone was answered 200 after an earlier turn.
C2_Witness ==
  \E r \in Reqs :
    /\ Done200(r)
    /\ alone[r]
    /\ Len(memAtRecv[r]) = 1
    /\ memory = Append(memAtRecv[r], Turn(question[r], answer[r]))

\* C3: the history in a request's prompt is the full ordered list of the
\* turns that were in memory when the request loaded it; so the prompt of a
\* request received after another was answered 200 contains that request's
\* question and answer.
C3_HistoryPropagation ==
  \A r \in Reqs :
    prompt[r] # << >> =>
      /\ loadedLen[r] \in 0..Len(memory)
      /\ prompt[r][1].chat_history = SubSeq(memory, 1, loadedLen[r])
      /\ \A o \in prior[r] :
           status[o] = 200 =>
             \E i \in DOMAIN prompt[r][1].chat_history :
               prompt[r][1].chat_history[i] = Turn(question[o], answer[o])

\* A second request's prompt was rendered after a first one was answered 200.
C3_Witness ==
  \E r, o \in Reqs :
    /\ o \in prior[r]
    /\ status[o] = 200
    /\ prompt[r] # << >>
    /\ Len(prompt[r][1].chat_history) = 1

\* C4: the memory holds exactly one turn for each request whose turn was
\* saved, however the loads and the saves of concurrent requests interleave;
\* when all NumReq requests were answered 200 it holds NumReq turns.
C4_NoDroppedTurns ==
  /\ Len(memory) = Cardinality({r \in Reqs : pc[r] = "saved" \/ Done200(r)})
  /\ (\A r \in Reqs : Done200(r)) => Len(memory) = NumReq
  /\ \A r \in Reqs :
       (pc[r] = "saved" \/ Done200(r)) =>
         \E i \in DOMAIN memory : memory[i] = Turn(question[r], answer[r])

\* Two concurrent requests both loaded the empty history before either saved,
\* both were answered 200, and the later-received one saved first.
C4_Witness ==
  /\ \A r \in Reqs : Done200(r) /\ ~alone[r] /\ loadedLen[r] = 0
  /\ Len(memory) = NumReq
  /\ savedBy[1] # 1

\* C5: a request whose retrieval or LLM call failed is answered 500 with an
\* error body; the process keeps running and listening; the failing step
\* changes nothing of the other requests nor the memory, and every request in
\* flight can still take its next step towards its own response.
C5_FailureContained ==
  /\ [](\A r \in Reqs :
          /\ (context[r] = "failed" \/ (pc[r] = "responded" /\ prompt[r] # << >> /\ answer[r] = None))
               => /\ pc[r] = "responded"
                  /\ status[r] = 500
                  /\ body[r] = <<"error", Err500>>
          /\ pc[r] # "idle" => (exitCode = -1 /\ listening)
          /\ pc[r] = "responded" => status[r] \in {200, 400, 500}
          /\ InFlight(r) => ENABLED ReqStep(r))
  /\ [][\A r \in Reqs :
          (context'[r] = "failed" /\ context[r] # "failed")
            \/ (pc[r] = "llm" /\ pc'[r] = "responded")
          => /\ memory' = memory
             /\ \A o \in Reqs \ {r} :
                  /\ pc'[o] = pc[o]
                  /\ status'[o] = status[o]
                  /\ body'[o] = body[o]
                  /\ answer'[o] = answer[o]
                  /\ hist'[o] = hist[o]
                  /\ context'[o] = context[o]]_vars

\* One request was answered 500 while another was in flight, and that other
\* request was then answered 200.
C5_Witness ==
  \E r, o \in Reqs :
    /\ status[r] = 500
    /\ ~alone[r]
    /\ Done200(o)
    /\ exitCode = -1

\* C6: initializeAIComponents is called at most once; routes are registered
\* and the server listens only after the LLM client, the vector store, the
\* retriever, the empty memory and the chain were all constructed by its one
\* call; and a process whose construction failed has exit status 1 and
\* neither listens nor has routes.
C6_InitBeforeListen ==
  /\ initCalls \in {0, 1}
  /\ (listening \/ routes # {}) =>
       /\ components = AllComponents
       /\ initCalls = 1
       /\ exitCode = -1
  /\ bootPc = "listening" => listening
  /\ (\E i \in DOMAIN log : log[i] = <<"error", ErrInit>>) =>
       /\ exitCode = 1
       /\ bootPc = "exited"
       /\ ~listening
       /\ routes = {}
       /\ \A r \in Reqs : pc[r] = "idle"
  /\ "memory" \notin components => memory = << >>

\* The server listens and has received a request.
C6_Witness ==
  /\ listening
  /\ components = AllComponents
  /\ \E r \in Reqs : pc[r] # "idle"

\* C7: once the environment check has run: if any of the three variables is
\* absent (undefined, or empty, which the check treats alike) the process has
\* exit status 1, no component was constructed, initializeAIComponents was
\* not called and nothing listens, and the log shows for each variable whether
\* it is loaded, says that variables are missing, and holds no value; if all
\* three are set the check has printed no such error and the process exits,
\* if at all, because the construction failed.
C7_MissingConfigExits ==
  bootPc # "start" =>
    /\ Len(log) >= 3
    /\ \A i \in 1..3 :
         /\ log[i][1] \in EnvKeys
         /\ log[i][2] = (IF env[log[i][1]] \in {Undefined, ""} THEN "EJ LADAD" ELSE "Laddad")
    /\ {log[i][1] : i \in 1..3} = EnvKeys
    /\ \A i \in DOMAIN log : \A j \in DOMAIN log[i] : log[i][j] # Secret
    /\ IF \E k \in EnvKeys : env[k] \in {Undefined, ""}
         THEN /\ exitCode = 1
              /\ bootPc = "exited"
              /\ log[4] = <<"error", ErrEnv>>
              /\ components = {}
              /\ initCalls = 0
              /\ ~listening
         ELSE /\ \A i \in DOMAIN log : log[i] # <<"error", ErrEnv>>
              /\ exitCode = 1 => (\E i \in DOMAIN log : log[i] = <<"error", ErrInit>>)

\* The process exited on an environment with one variable absent and another
\* one set.
C7_Witness ==
  /\ bootPc = "exited"
  /\ exitCode = 1
  /\ \E k1, k2 \in EnvKeys : env[k1] = Undefined /\ env[k2] = Secret

Has(l, m) == \E i \in DOMAIN l : l[i] = m

\* C8: the ingestion script ends with status 0 exactly when the document was
\* loaded, split, embedded and all rows were written, and with status 1
\* otherwise; after a failed load or a failed write it does not report
\* completion.
C8_IngestFailsLoudly ==
  ipc = "exited" =>
    /\ iexit = 0 <=> Has(ilog, MsgUploaded)
    /\ iexit = 1 <=> ~Has(ilog, MsgUploaded)
    /\ (Has(ilog, MsgUploadError) \/ Has(ilog, MsgRejected)) => ~Has(ilog, MsgDone)

\* C9: the argument handed to the retriever is the question alone: two
\* requests with the same question hand the same query to the retriever,
\* whatever the memory held when each was received.
C9_RetrievalIgnoresHistory ==
  /\ \A r \in Reqs : retrQuery[r] # << >> => retrQuery[r] = <<question[r]>>
  /\ \A r1, r2 \in Reqs :
       (retrQuery[r1] # << >> /\ retrQuery[r2] # << >> /\ question[r1] = question[r2])
         => retrQuery[r1] = retrQuery[r2]

\* Two requests with the same question were handled on different memories,
\* and the history reached the prompt of the later one.
C9_Witness ==
  \E r1, r2 \in Reqs :
    /\ question[r1] = question[r2]
    /\ retrQuery[r1] # << >>
    /\ retrQuery[r2] # << >>
    /\ memAtRecv[r1] # memAtRecv[r2]
    /\ prompt[r2] # << >>
    /\ prompt[r2][1].chat_history # << >>

\* C10: every turn in memory was saved by a request whose chain produced an
\* answer and is that request's (question, answer); a request answered 400 or
\* 500 saved none; and the number of turns never exceeds the number of
\* requests whose chain produced an answer.
C10_FailedRequestsSaveNothing ==
  /\ Len(savedBy) = Len(memory)
  /\ \A i \in DOMAIN memory :
       /\ savedBy[i] \in Reqs
       /\ answer[savedBy[i]] # None
       /\ status[savedBy[i]] \in {0, 200}
       /\ memory[i] = Turn(question[savedBy[i]], answer[savedBy[i]])
  /\ \A r \in Reqs : status[r] \in {400, 500} => r \notin Range(savedBy)
  /\ Len(memory) <= Cardinality({r \in Reqs : answer[r] # None})

\* A request was answered 500 after its LLM call failed, while the memory
\* holds the turn of another request.
C10_Witness ==
  \E r \in Reqs :
    /\ status[r] = 500
    /\ prompt[r] # << >>
    /\ Len(memory) = 1
    /\ r \notin Range(savedBy)

====
